---- MODULE Spec2Model ----
(***************************************************************************)
(* Identity, token lifecycle and resource authorization core of the todo   *)
(* application: the task and conversation endpoints with their ownership   *)
(* checks, the bearer-token functions (create_access_token, verify_token   *)
(* and the expiry helpers) and the two request gates (JWTMiddleware and    *)
(* the get_current_user_id dependency).                                    *)
(*                                                                         *)
(* Time is counted in whole seconds since the epoch, the unit of the exp   *)
(* claim; the process clock is UTC.                                        *)
(***************************************************************************)
EXTENDS Integers, Sequences, FiniteSets, TLC

VARIABLES tasks, conversations, messages, req, now, last, counters, calls,
          metrics, todo, revoked

vars == <<tasks, conversations, messages, req, now, last, counters, calls,
          metrics, todo, revoked>>

----------------------------------------------------------------------------
(* Bounds *)

MaxTaskId == 2
MaxConversationId == 2
MaxMessages == 2
MaxTime == 4
MaxDelta == 1

----------------------------------------------------------------------------
(* Values *)

None == "None"
Users == {"A", "B"}
Titles == {"a"}
Descriptions == {None, "d"}
TaskUpdateFields == {"title", "description", "completed"}
ConversationCreateFields == {"title"}

NoRequest ==
    [op |-> "none", user |-> None, id |-> 0, payload_owner |-> None,
     status |-> 0, listed |-> {}]

Response(op, user, id, payload_owner, status, listed) ==
    [op |-> op, user |-> user, id |-> id, payload_owner |-> payload_owner,
     status |-> status, listed |-> listed]

Max(S) == CHOOSE x \in S : \A y \in S : y <= x

\* The primary key the database gives a new row (sqlite rowid: largest + 1).
NewId(table) == IF DOMAIN table = {} THEN 1 ELSE Max(DOMAIN table) + 1

Without(table, id) == [i \in DOMAIN table \ {id} |-> table[i]]

With(table, id, row) ==
    [i \in DOMAIN table \cup {id} |-> IF i = id THEN row ELSE table[i]]

----------------------------------------------------------------------------
(* Validators *)

\* title.strip() is empty
Blank(title) == title \in {"", " "}

validate_task_create(task_create) ==
    IF Blank(task_create.title) THEN 400 ELSE 0

validate_task_update(task_update) ==
    IF "title" \in task_update.fields /\ task_update.title = "" THEN 400 ELSE 0

----------------------------------------------------------------------------
(* TaskService: each operation returns [result, tasks], the value returned  *)
(* (or the exception raised) and the table after the call.                  *)

TaskService_create_task(tbl, task_create) ==
    LET id == NewId(tbl)
        db_task == [user_id |-> task_create.user_id,
                    title |-> task_create.title,
                    description |-> task_create.description,
                    completed |-> task_create.completed]
    IN [result |-> id, tasks |-> With(tbl, id, db_task)]

TaskService_get_task_by_id(tbl, task_id) ==
    IF task_id \in DOMAIN tbl THEN task_id ELSE 0

TaskService_get_tasks_by_user_id(tbl, user_id) ==
    {i \in DOMAIN tbl : tbl[i].user_id = user_id}

\* ApplyUpdate, had TaskUpdate declared the owner field as well
ApplyUpdateOwner(db_task, task_update) ==
    [user_id |-> task_update.user_id,
     title |-> IF "title" \in task_update.fields
               THEN task_update.title ELSE db_task.title,
     description |-> IF "description" \in task_update.fields
                     THEN task_update.description ELSE db_task.description,
     completed |-> IF "completed" \in task_update.fields
                   THEN task_update.completed ELSE db_task.completed]

\* dict(exclude_unset=True) followed by setattr for every field that was set
ApplyUpdate(db_task, task_update) ==
    [user_id |-> db_task.user_id,
     title |-> IF "title" \in task_update.fields
               THEN task_update.title ELSE db_task.title,
     description |-> IF "description" \in task_update.fields
                     THEN task_update.description ELSE db_task.description,
     completed |-> IF "completed" \in task_update.fields
                   THEN task_update.completed ELSE db_task.completed]

\* current_user_id is None when the caller passes no user
Truthy(s) == s # None /\ s # ""

TaskService_update_task(tbl, task_id, task_update, current_user_id) ==
    IF task_id \notin DOMAIN tbl
    THEN [result |-> "None", tasks |-> tbl]
    ELSE IF Truthy(current_user_id) /\ tbl[task_id].user_id # current_user_id
    THEN [result |-> "PermissionError", tasks |-> tbl]
    ELSE [result |-> "task",
          tasks |-> With(tbl, task_id, ApplyUpdate(tbl[task_id], task_update))]

TaskService_delete_task(tbl, task_id, current_user_id) ==
    IF task_id \notin DOMAIN tbl
    THEN [result |-> "False", tasks |-> tbl]
    ELSE IF Truthy(current_user_id) /\ tbl[task_id].user_id # current_user_id
    THEN [result |-> "PermissionError", tasks |-> tbl]
    ELSE [result |-> "True", tasks |-> Without(tbl, task_id)]

TaskService_toggle_task_completion(tbl, task_id, current_user_id) ==
    IF task_id \notin DOMAIN tbl
    THEN [result |-> "None", tasks |-> tbl]
    ELSE IF Truthy(current_user_id) /\ tbl[task_id].user_id # current_user_id
    THEN [result |-> "PermissionError", tasks |-> tbl]
    ELSE [result |-> "task",
          tasks |-> With(tbl, task_id,
                         [tbl[task_id] EXCEPT !.completed = ~tbl[task_id].completed])]

----------------------------------------------------------------------------
(* Task endpoints: each returns [status, tasks, listed].                    *)

Answer(status, tbl, listed) == [status |-> status, tasks |-> tbl, listed |-> listed]

\* create_task without the override of the payload's user_id
create_task_payload_owner(tbl, task_create, current_user_id) ==
    IF validate_task_create(task_create) # 0
    THEN Answer(400, tbl, {})
    ELSE LET r == TaskService_create_task(tbl, task_create)
         IN Answer(201, r.tasks, {r.result})

create_task(tbl, task_create, current_user_id) ==
    LET overridden == [task_create EXCEPT !.user_id = current_user_id]
    IN IF validate_task_create(overridden) # 0
       THEN Answer(400, tbl, {})
       ELSE LET r == TaskService_create_task(tbl, overridden)
            IN Answer(201, r.tasks, {r.result})

get_tasks_for_user(tbl, user_id, current_user_id) ==
    IF user_id # current_user_id
    THEN Answer(403, tbl, {})
    ELSE IF Blank(user_id)
    THEN Answer(400, tbl, {})
    ELSE Answer(200, tbl, TaskService_get_tasks_by_user_id(tbl, user_id))

\* update_task without the ownership check
update_task_unchecked(tbl, task_id, task_update, current_user_id) ==
    IF validate_task_update(task_update) # 0
    THEN Answer(400, tbl, {})
    ELSE IF TaskService_get_task_by_id(tbl, task_id) = 0
    THEN Answer(404, tbl, {})
    ELSE Answer(200, TaskService_update_task(tbl, task_id, task_update, None).tasks,
                {task_id})

update_task(tbl, task_id, task_update, current_user_id) ==
    IF validate_task_update(task_update) # 0
    THEN Answer(400, tbl, {})
    ELSE IF TaskService_get_task_by_id(tbl, task_id) = 0
    THEN Answer(404, tbl, {})
    ELSE IF tbl[task_id].user_id # current_user_id
    THEN Answer(403, tbl, {})
    ELSE LET r == TaskService_update_task(tbl, task_id, task_update, None)
         IN IF r.result = "None"
            THEN Answer(404, tbl, {})
            ELSE Answer(200, r.tasks, {task_id})

toggle_task_completion(tbl, task_id, current_user_id) ==
    IF TaskService_get_task_by_id(tbl, task_id) = 0
    THEN Answer(404, tbl, {})
    ELSE IF tbl[task_id].user_id # current_user_id
    THEN Answer(403, tbl, {})
    ELSE LET r == TaskService_toggle_task_completion(tbl, task_id, None)
         IN IF r.result = "None"
            THEN Answer(404, tbl, {})
            ELSE Answer(200, r.tasks, {task_id})

\* delete_task answering an absent task as already deleted
delete_task_absent_ok(tbl, task_id, current_user_id) ==
    IF TaskService_get_task_by_id(tbl, task_id) = 0
    THEN Answer(204, tbl, {})
    ELSE IF tbl[task_id].user_id # current_user_id
    THEN Answer(403, tbl, {})
    ELSE Answer(204, TaskService_delete_task(tbl, task_id, None).tasks, {})

delete_task(tbl, task_id, current_user_id) ==
    IF TaskService_get_task_by_id(tbl, task_id) = 0
    THEN Answer(404, tbl, {})
    ELSE IF tbl[task_id].user_id # current_user_id
    THEN Answer(403, tbl, {})
    ELSE LET r == TaskService_delete_task(tbl, task_id, None)
         IN IF r.result = "False"
            THEN Answer(404, tbl, {})
            ELSE Answer(204, r.tasks, {})

----------------------------------------------------------------------------
(* Conversations: each operation returns [status, conversations, messages,  *)
(* id].                                                                     *)

ConversationService_create_conversation(convs, user_id, title) ==
    LET id == NewId(convs)
    IN [result |-> id,
        conversations |-> With(convs, id, [user_id |-> user_id, title |-> title])]

\* 0 when no row has this id and this owner
ConversationService_get_conversation(convs, conversation_id, user_id) ==
    IF conversation_id \in DOMAIN convs /\ convs[conversation_id].user_id = user_id
    THEN conversation_id ELSE 0

ConversationService_add_message(msgs, conversation_id, sender) ==
    With(msgs, conversation_id,
         (IF conversation_id \in DOMAIN msgs THEN msgs[conversation_id] ELSE <<>>)
             \o <<sender>>)

ChatAnswer(status, convs, msgs, id) ==
    [status |-> status, conversations |-> convs, messages |-> msgs, id |-> id]

\* Assigning a field the request model does not declare raises ValueError.
SetAttr(declared, field) == IF field \in declared THEN "ok" ELSE "ValueError"

create_conversation(convs, msgs, conversation_create, current_user_id) ==
    IF SetAttr(ConversationCreateFields, "user_id") # "ok"
    THEN ChatAnswer(500, convs, msgs, 0)
    ELSE LET r == ConversationService_create_conversation(
                      convs, current_user_id, conversation_create.title)
         IN ChatAnswer(201, r.conversations, msgs, r.result)

\* agent is the outcome of the language agent: "ok" or "error" (it raised)
ChatService_process_chat_message(convs, msgs, user_id, conversation_id, agent) ==
    IF conversation_id # 0
       /\ ConversationService_get_conversation(convs, conversation_id, user_id) = 0
    THEN ChatAnswer(404, convs, msgs, 0)
    ELSE LET r == IF conversation_id # 0
                  THEN [result |-> conversation_id, conversations |-> convs]
                  ELSE ConversationService_create_conversation(convs, user_id, None)
             m1 == ConversationService_add_message(msgs, r.result, "user")
         IN IF agent = "error"
            THEN ChatAnswer(500, r.conversations, m1, r.result)
            ELSE ChatAnswer(200, r.conversations,
                            ConversationService_add_message(m1, r.result, "ai"),
                            r.result)

send_chat_message(convs, msgs, chat_request, current_user_id, agent) ==
    ChatService_process_chat_message(
        convs, msgs, current_user_id, chat_request.conversation_id, agent)

----------------------------------------------------------------------------
(* Request payloads as they reach the handlers, that is after the request  *)
(* models have validated them (a title has at least one character).        *)

TaskCreates ==
    [title : Titles \cup {" "}, description : Descriptions,
     completed : BOOLEAN, user_id : Users \cup {None}]

\* the task payloads that differ in the owner field only
OwnerPayloads ==
    {tc \in TaskCreates :
        tc.title = "a" /\ tc.description = None /\ tc.completed = FALSE}

\* a field that is not set carries its default
TaskUpdates ==
    {tu \in [fields : SUBSET TaskUpdateFields, title : Titles,
             description : Descriptions, completed : BOOLEAN,
             user_id : Users \cup {None}] :
        /\ "title" \notin tu.fields => tu.title = "a"
        /\ "description" \notin tu.fields => tu.description = None
        /\ "completed" \notin tu.fields => tu.completed = FALSE}

ConversationCreates == [title : {None, "c"}, user_id : Users \cup {None}]

ChatRequests(ids) == [conversation_id : ids, user_id : Users \cup {None}]

TaskIds == 1 .. MaxTaskId

----------------------------------------------------------------------------
(* Actions: one request each, made by an authenticated principal.          *)

CreateTask(payloads) ==
    \E u \in Users, tc \in payloads :
        /\ NewId(tasks) <= MaxTaskId
        /\ LET a == create_task(tasks, tc, u)
           IN /\ tasks' = a.tasks
              /\ req' = Response("create_task", u, 0, tc.user_id, a.status, a.listed)
        /\ UNCHANGED <<conversations, messages, now, last, counters, calls, metrics, todo, revoked>>

GetTasksForUser ==
    \E u \in Users, user_id \in Users :
        /\ LET a == get_tasks_for_user(tasks, user_id, u)
           IN /\ tasks' = a.tasks
              /\ req' = Response("get_tasks_for_user", u, 0, user_id, a.status, a.listed)
        /\ UNCHANGED <<conversations, messages, now, last, counters, calls, metrics, todo, revoked>>

UpdateTask ==
    \E u \in Users, id \in TaskIds, tu \in TaskUpdates :
        /\ LET a == update_task(tasks, id, tu, u)
           IN /\ tasks' = a.tasks
              /\ req' = Response("update_task", u, id, tu.user_id, a.status, a.listed)
        /\ UNCHANGED <<conversations, messages, now, last, counters, calls, metrics, todo, revoked>>

ToggleTaskCompletion ==
    \E u \in Users, id \in TaskIds :
        /\ LET a == toggle_task_completion(tasks, id, u)
           IN /\ tasks' = a.tasks
              /\ req' = Response("toggle_task_completion", u, id, None, a.status, a.listed)
        /\ UNCHANGED <<conversations, messages, now, last, counters, calls, metrics, todo, revoked>>

DeleteTask ==
    \E u \in Users, id \in TaskIds :
        /\ LET a == delete_task(tasks, id, u)
           IN /\ tasks' = a.tasks
              /\ req' = Response("delete_task", u, id, None, a.status, a.listed)
        /\ UNCHANGED <<conversations, messages, now, last, counters, calls, metrics, todo, revoked>>

CreateConversation ==
    \E u \in Users, cc \in ConversationCreates :
        /\ NewId(conversations) <= MaxConversationId
        /\ LET a == create_conversation(conversations, messages, cc, u)
           IN /\ conversations' = a.conversations
              /\ messages' = a.messages
              /\ req' = Response("create_conversation", u, a.id, cc.user_id, a.status, {})
        /\ UNCHANGED <<tasks, now, last, counters, calls, metrics, todo, revoked>>

SendChatMessage(ids) ==
    \E u \in Users, cr \in ChatRequests(ids), agent \in {"ok", "error"} :
        /\ cr.conversation_id = 0 => NewId(conversations) <= MaxConversationId
        /\ cr.conversation_id \in DOMAIN messages =>
               Len(messages[cr.conversation_id]) + 2 <= MaxMessages
        /\ LET a == send_chat_message(conversations, messages, cr, u, agent)
           IN /\ conversations' = a.conversations
              /\ messages' = a.messages
              /\ req' = Response("send_chat_message", u, a.id, cr.user_id, a.status, {})
        /\ UNCHANGED <<tasks, now, last, counters, calls, metrics, todo, revoked>>

----------------------------------------------------------------------------
(* Specifications *)

Init ==
    /\ tasks = <<>>
    /\ conversations = <<>>
    /\ messages = <<>>
    /\ req = NoRequest
    /\ now = 1
    /\ last = [op |-> "none"]
    /\ counters = <<>>
    /\ calls = <<>>
    /\ metrics = [requests |-> 0, successful_requests |-> 0, failed_requests |-> 0,
                  database_queries |-> 0, api_calls |-> 0, user_messages |-> 0,
                  ai_responses |-> 0]
    /\ todo = [tasks |-> <<>>, next_id |-> 1]
    /\ revoked = {}

\* The task endpoints.
Next ==
    \/ CreateTask(TaskCreates)
    \/ GetTasksForUser
    \/ UpdateTask
    \/ ToggleTaskCompletion
    \/ DeleteTask

Spec == Init /\ [][Next]_vars

\* The endpoints that create or remove a row of either table.
NextCreate ==
    \/ CreateTask(OwnerPayloads)
    \/ DeleteTask
    \/ CreateConversation
    \/ SendChatMessage({0})

SpecCreate == Init /\ [][NextCreate]_vars

----------------------------------------------------------------------------
(* Claims *)

\* C1: a request authenticated as one principal never changes or removes a
\* task owned by another principal; update, toggle and delete of such a task
\* are answered 403; a task list holds only tasks owned by the requester.
C1_Isolation ==
    [][/\ \A id \in DOMAIN tasks :
              tasks[id].user_id # req'.user =>
                  id \in DOMAIN tasks' /\ tasks'[id] = tasks[id]
       /\ (/\ req'.op \in {"update_task", "toggle_task_completion", "delete_task"}
           /\ req'.id \in DOMAIN tasks
           /\ tasks[req'.id].user_id # req'.user) => req'.status = 403
       /\ (req'.op = "get_tasks_for_user" /\ req'.status = 200) =>
              /\ \A id \in req'.listed : tasks'[id].user_id = req'.user
              /\ \A id \in DOMAIN tasks' :
                     tasks'[id].user_id = req'.user => id \in req'.listed]_vars

C1_Witness ==
    /\ req.op \in {"update_task", "delete_task"}
    /\ req.status = 403
    /\ req.id \in DOMAIN tasks
    /\ tasks[req.id].user_id # req.user
    /\ \E id \in DOMAIN tasks : tasks[id].user_id = req.user

C3_OwnerNeverMutated ==
    [][\A id \in DOMAIN tasks \cap DOMAIN tasks' :
           tasks'[id].user_id = tasks[id].user_id]_vars

C3_Witness ==
    /\ req.op = "update_task"
    /\ req.status = 200
    /\ req.payload_owner \in Users \ {req.user}
    /\ tasks[req.id].user_id = req.user

----------------------------------------------------------------------------
(* Tokens *)

\* An optional number: <<>> when absent, <<n>> when present.
Absent == <<>>
Has(x) == x # <<>>
Val(x) == x[1]

Roles == {"user", "admin"}

NoClaims ==
    [user_id |-> None, role |-> None, exp |-> Absent, nbf |-> Absent, iat |-> Absent]

\* A token string is the empty string, a string that is no encoded claims set
\* (with the number of dots in it), or an encoded claims set whose signature
\* matches the configured secret ("good") or does not ("bad").
EmptyToken == [text |-> "empty", dots |-> 0, sig |-> "none", claims |-> NoClaims]

Garbage(dots) == [text |-> "garbage", dots |-> dots, sig |-> "none", claims |-> NoClaims]

Signed(claims, sig) == [text |-> "jwt", dots |-> 2, sig |-> sig, claims |-> claims]

\* len(token.split('.'))
Split(token) == token.dots + 1

----------------------------------------------------------------------------
(* Logging helpers as security.py sees them *)

ImportedNames ==
    {"log_operation", "log_token_validation_result", "log_token_lifecycle_event"}

LogSignature(name) ==
    CASE name = "log_operation" -> {"user_id", "task_id"}
      [] name = "log_token_validation_result" -> {"user_id", "reason"}
      [] name = "log_token_lifecycle_event" -> {"user_id", "token_id", "details"}
      [] name = "log_security_event" -> {"user_id", "ip_address", "severity"}

\* The outcome of calling a module-level name with these keyword arguments.
Call(name, kwargs) ==
    IF name \notin ImportedNames THEN "NameError"
    ELSE IF ~(kwargs \subseteq LogSignature(name)) THEN "TypeError"
    ELSE "ok"

----------------------------------------------------------------------------
(* create_access_token, verify_token and the expiry helpers *)

JWT_EXPIRATION_DELTA == 604800

\* user ids: one of 256 ASCII characters, one of 200 two-byte characters
LongUserId == "longer than 255"
WideUserId == "200 characters, 400 bytes"

\* len(user_id)
UserIdChars(user_id) ==
    CASE user_id = "" -> 0
      [] user_id = LongUserId -> 256
      [] user_id = WideUserId -> 200
      [] OTHER -> 1

\* len(user_id.encode())
UserIdBytes(user_id) ==
    CASE user_id = "" -> 0
      [] user_id = LongUserId -> 256
      [] user_id = WideUserId -> 400
      [] OTHER -> 1

Issued(kind, why, token) == [kind |-> kind, why |-> why, token |-> token]

\* data.user_id = None and data.role = None stand for a key that is not in data
create_access_token(data, expires_delta, t) ==
    IF data.user_id # None
       /\ (UserIdChars(data.user_id) = 0 \/ UserIdChars(data.user_id) > 255)
    THEN Issued("raise", "ValueError: Invalid user_id", EmptyToken)
    ELSE IF data.role # None /\ data.role \notin Roles
    THEN IF Call("log_security_event", {"user_id", "severity"}) = "ok"
         THEN Issued("raise", "ValueError: Invalid role", EmptyToken)
         ELSE Issued("raise", Call("log_security_event", {"user_id", "severity"}),
                     EmptyToken)
    ELSE LET expire == IF Has(expires_delta) /\ Val(expires_delta) # 0
                       THEN t + Val(expires_delta)
                       ELSE t + JWT_EXPIRATION_DELTA
         IN Issued("token", "CREATED",
                   Signed([user_id |-> data.user_id, role |-> data.role,
                           exp |-> <<expire>>, nbf |-> <<t>>, iat |-> <<t>>],
                          "good"))

Decoded(ok, error, payload) == [ok |-> ok, error |-> error, payload |-> payload]

\* jose's jwt.decode with its default options: structure, signature, nbf, exp
jwt_decode(token, t) ==
    IF token.text # "jwt" THEN Decoded(FALSE, "MALFORMED", NoClaims)
    ELSE IF token.sig # "good" THEN Decoded(FALSE, "BAD_SIGNATURE", NoClaims)
    ELSE IF Has(token.claims.nbf) /\ Val(token.claims.nbf) > t
    THEN Decoded(FALSE, "NOT_YET_VALID", NoClaims)
    ELSE IF Has(token.claims.exp) /\ Val(token.claims.exp) < t
    THEN Decoded(FALSE, "EXPIRED", NoClaims)
    ELSE Decoded(TRUE, "", token.claims)

Result(kind, why, payload, decoded) ==
    [kind |-> kind, why |-> why, payload |-> payload, decoded |-> decoded]

\* ExpiryReached, with a missing exp counted as expired
ExpiryReachedOrMissing(payload, t) ==
    ~Has(payload.exp) \/ t >= Val(payload.exp)

\* exp_time = payload.get("exp"); if exp_time: current_time >= exp_time
ExpiryReached(payload, t) ==
    Has(payload.exp) /\ Val(payload.exp) # 0 /\ t >= Val(payload.exp)

\* The try block of verify_token; kind "except" is an exception raised in it.
verify_try(token, t) ==
    IF token.text = "empty"
    THEN IF Call("log_security_event", {"severity"}) = "ok"
         THEN Result("None", "EMPTY", NoClaims, FALSE)
         ELSE Result("except", Call("log_security_event", {"severity"}), NoClaims, FALSE)
    ELSE IF Split(token) # 3
    THEN IF Call("log_security_event", {"severity"}) = "ok"
         THEN Result("None", "MALFORMED", NoClaims, FALSE)
         ELSE Result("except", Call("log_security_event", {"severity"}), NoClaims, FALSE)
    ELSE LET d == jwt_decode(token, t)
         IN IF ~d.ok
            THEN Result("except", d.error, NoClaims, TRUE)
            ELSE IF ExpiryReached(d.payload, t)
            THEN IF Call("log_token_validation_result", {"user_id", "reason"}) = "ok"
                 THEN Result("None", "EXPIRED", NoClaims, TRUE)
                 ELSE Result("except", "TypeError", NoClaims, TRUE)
            ELSE IF Call("log_token_lifecycle_event", {"user_id"}) = "ok"
                 THEN Result("payload", "VALID", d.payload, TRUE)
                 ELSE Result("except", "TypeError", NoClaims, TRUE)

\* verify_token consulting a list of revoked tokens
verify_token_blacklisted(token, t) ==
    LET b == verify_try(token, t)
        h1 == Call("log_token_validation_result", {"user_id", "reason"})
        h2 == Call("log_security_event", {"severity", "details"})
    IN IF token \in revoked THEN Result("None", "REVOKED", NoClaims, FALSE)
       ELSE IF b.kind # "except" THEN b
       ELSE IF h1 # "ok" THEN Result("raise", h1, NoClaims, b.decoded)
       ELSE IF h2 # "ok" THEN Result("raise", h2, NoClaims, b.decoded)
       ELSE Result("None", b.why, NoClaims, b.decoded)

\* The two except clauses log the same two events before they return None.
verify_token(token, t) ==
    LET b == verify_try(token, t)
        h1 == Call("log_token_validation_result", {"user_id", "reason"})
        h2 == Call("log_security_event", {"severity", "details"})
    IN IF b.kind # "except" THEN b
       ELSE IF h1 # "ok" THEN Result("raise", h1, NoClaims, b.decoded)
       ELSE IF h2 # "ok" THEN Result("raise", h2, NoClaims, b.decoded)
       ELSE Result("None", b.why, NoClaims, b.decoded)

validate_jwt_token(token, t) ==
    LET d == jwt_decode(token, t)
    IN IF ~d.ok
       THEN IF Call("log_token_validation_result", {"reason"}) = "ok"
            THEN Result("None", d.error, NoClaims, TRUE)
            ELSE Result("raise", "TypeError", NoClaims, TRUE)
       ELSE IF ExpiryReached(d.payload, t)
       THEN Result("None", "EXPIRED", NoClaims, TRUE)
       ELSE Result("payload", "VALID", d.payload, TRUE)

\* validate_token_not_expired, with the boundary instant counted as valid
validate_token_not_expired_inclusive(payload, t) ==
    IF ~Has(payload.exp) THEN FALSE ELSE t <= Val(payload.exp)

validate_token_not_expired(payload, t) ==
    IF ~Has(payload.exp) THEN FALSE ELSE t < Val(payload.exp)

is_token_expired(payload, t) ==
    IF ~Has(payload.exp) THEN TRUE ELSE t >= Val(payload.exp)

----------------------------------------------------------------------------
(* The gates. A response is [status, www_authenticate, detail], with what   *)
(* the gate did: handler (the request went on to the handler), checked (the *)
(* outcome of token verification, "no" when none was made) and the user id  *)
(* handed to the handler.                                                   *)

Resp(status, www, detail, handler, checked, user_id) ==
    [status |-> status, www_authenticate |-> www, detail |-> detail,
     handler |-> handler, checked |-> checked, user_id |-> user_id]

Reject(detail, checked) == Resp(401, "Bearer", detail, FALSE, checked, None)

\* an exception that no handler of the gate catches
Unhandled == Resp(500, None, "Internal Server Error", FALSE, "raised", None)

Continue(checked, user_id) == Resp(200, None, "", TRUE, checked, user_id)

\* A path is the sequence of its pieces: "/docs" is <<"/", "docs">>.
public_routes ==
    {<<"/">>, <<"/", "docs">>, <<"/", "redoc">>, <<"/", "openapi.json">>,
     <<"/", "health">>, <<"/", "api/v1/", "login">>, <<"/", "api/v1/", "register">>}

\* path.startswith(route)
StartsWith(path, route) ==
    Len(route) <= Len(path) /\ SubSeq(path, 1, Len(route)) = route

\* scheme.lower()
Lower(scheme) == IF scheme \in {"Bearer", "bearer"} THEN "bearer" ELSE "basic"

\* header: [present, nparts, scheme, token], nparts the length of split(" ")
JWTMiddleware_dispatch(method, path, header, t) ==
    LET is_public_route == \E route \in public_routes : StartsWith(path, route)
    IN IF method = "OPTIONS" \/ is_public_route
       THEN Continue("no", None)
       ELSE IF ~header.present
       THEN Reject("Authorization header is missing", "no")
       ELSE IF header.nparts # 2
       THEN Reject("Invalid authorization header format", "no")
       ELSE IF Lower(header.scheme) # "bearer"
       THEN Reject("Authorization scheme must be Bearer", "no")
       ELSE LET r == verify_token(header.token, t)
            IN IF r.kind = "raise" THEN Unhandled
               ELSE IF r.kind = "None"
               THEN Reject("Invalid or expired token", "failed")
               ELSE IF ExpiryReached(r.payload, t)
               THEN Reject("Token has expired", "failed")
               ELSE Continue("ok", r.payload.user_id)

\* deps.get_current_user_id, given the credentials HTTPBearer extracted
get_current_user_id(token, t) ==
    LET r == verify_token(token, t)
    IN IF r.kind = "raise" THEN Unhandled
       ELSE IF r.kind = "None"
       THEN Reject("Invalid authentication credentials", "failed")
       ELSE IF r.payload.user_id = None
       THEN Reject("Could not validate credentials", "ok")
       ELSE Continue("ok", r.payload.user_id)

\* security.get_current_user_payload; credentials is <<>> when HTTPBearer
\* found no bearer credentials
get_current_user_payload(credentials, t) ==
    IF ~Has(credentials)
    THEN Reject("No authorization token provided", "no")
    ELSE LET r == validate_jwt_token(Val(credentials), t)
         IN IF r.kind = "raise" THEN Unhandled
            ELSE IF r.kind = "None"
            THEN Reject("Invalid or expired token", "failed")
            ELSE IF r.payload.user_id = None
            THEN Reject("Could not validate credentials", "ok")
            ELSE Continue("ok", r.payload.user_id)

----------------------------------------------------------------------------
(* Requests to the token functions and the gates *)

IssueData ==
    [user_id : {"A", "", None, LongUserId, WideUserId}, role : {"user", "root"}]

Deltas == {Absent} \cup { <<d>> : d \in (0 - 1)..MaxDelta }

\* claims of the tokens create_access_token has handed out up to instant t
IssuedClaims(t) ==
    { create_access_token(d, e, t0).token.claims :
        <<d, e, t0>> \in { x \in IssueData \X Deltas \X (1..t) :
                             create_access_token(x[1], x[2], x[3]).kind = "token" } }

\* claims encoded with jwt.encode directly, as the tests do
EncodedClaims ==
    { [user_id |-> u, role |-> None, exp |-> e, nbf |-> Absent, iat |-> Absent] :
        u \in {"A", None}, e \in {Absent} \cup { <<x>> : x \in 1..(MaxTime + 1) } }

ClaimsAt(t) == IssuedClaims(t) \cup EncodedClaims

PresentableTokens(t) ==
    {EmptyToken} \cup { Garbage(d) : d \in {0, 2, 3} }
      \cup { Signed(c, sg) : c \in ClaimsAt(t), sg \in {"good", "bad"} }

\* the tokens sent in Authorization headers
HeaderTokens ==
    {EmptyToken, Garbage(2),
     Signed([user_id |-> None, role |-> None, exp |-> <<MaxTime + 1>>,
             nbf |-> Absent, iat |-> Absent], "good")}
      \cup { Signed(c, sg) : c \in { x \in EncodedClaims : x.user_id = "A" },
                             sg \in {"good", "bad"} }

Methods == {"GET", "OPTIONS"}

Paths ==
    {<<"/">>, <<"/", "docs">>, <<"/", "api/v1/", "login">>,
     <<"/", "api/v1/", "tasks/1">>}

Header(present, nparts, scheme, token) ==
    [present |-> present, nparts |-> nparts, scheme |-> scheme, token |-> token]

Headers ==
    {Header(FALSE, 0, "", EmptyToken), Header(TRUE, 1, "Bearer", EmptyToken),
     Header(TRUE, 3, "Bearer", EmptyToken), Header(TRUE, 2, "Basic", Garbage(0))}
      \cup { Header(TRUE, 2, "Bearer", tok) : tok \in HeaderTokens }

Credentials(t) == {Absent} \cup { <<tok>> : tok \in PresentableTokens(t) }

Untouched ==
    UNCHANGED <<tasks, conversations, messages, req, counters, calls, metrics, todo,
                revoked>>

Tick ==
    /\ now < MaxTime
    /\ now' = now + 1
    /\ UNCHANGED last
    /\ Untouched

Issue ==
    /\ \E d \in IssueData, e \in Deltas :
         last' = [op |-> "create_access_token", at |-> now, data |-> d,
                  expires_delta |-> e, result |-> create_access_token(d, e, now)]
    /\ UNCHANGED now
    /\ Untouched

Verify ==
    /\ \E tok \in PresentableTokens(now) :
         last' = [op |-> "verify_token", at |-> now, token |-> tok,
                  result |-> verify_token(tok, now)]
    /\ UNCHANGED now
    /\ Untouched

CheckExpiry ==
    /\ \E c \in ClaimsAt(now) :
         last' = [op |-> "expiry", at |-> now, payload |-> c,
                  not_expired |-> validate_token_not_expired(c, now),
                  is_expired |-> is_token_expired(c, now),
                  verify |-> verify_token(Signed(c, "good"), now)]
    /\ UNCHANGED now
    /\ Untouched

Dispatch ==
    /\ \E m \in Methods, p \in Paths, h \in Headers :
         last' = [op |-> "dispatch", at |-> now, method |-> m, path |-> p,
                  header |-> h, resp |-> JWTMiddleware_dispatch(m, p, h, now)]
    /\ UNCHANGED now
    /\ Untouched

GetCurrentUserId ==
    /\ \E tok \in PresentableTokens(now) :
         last' = [op |-> "get_current_user_id", at |-> now, token |-> tok,
                  resp |-> get_current_user_id(tok, now)]
    /\ UNCHANGED now
    /\ Untouched

GetCurrentUserPayload ==
    /\ \E c \in Credentials(now) :
         last' = [op |-> "get_current_user_payload", at |-> now, credentials |-> c,
                  resp |-> get_current_user_payload(c, now)]
    /\ UNCHANGED now
    /\ Untouched

NextAuth ==
    \/ Tick
    \/ Issue
    \/ Verify
    \/ CheckExpiry
    \/ Dispatch
    \/ GetCurrentUserId
    \/ GetCurrentUserPayload

SpecAuth == Init /\ [][NextAuth]_vars

----------------------------------------------------------------------------
(* C4 .. C10 *)

\* C4: the middleware passes a request on without verifying a token only for
\* an OPTIONS request or a configured public path (the root itself, or a path
\* under docs, redoc, openapi.json, health, login, register); any other
\* request without an Authorization header gets 401 with WWW-Authenticate:
\* Bearer and does not reach the handler.
C4_BypassOnlyPublic ==
    last.op = "dispatch" =>
        LET bypass == \/ last.method = "OPTIONS"
                      \/ last.path = <<"/">>
                      \/ \E route \in public_routes \ {<<"/">>} :
                            StartsWith(last.path, route)
        IN /\ (last.resp.handler /\ last.resp.checked = "no") => bypass
           /\ (~bypass /\ ~last.header.present) =>
                 /\ last.resp.status = 401
                 /\ last.resp.www_authenticate = "Bearer"
                 /\ ~last.resp.handler

\* C5: when the presented bearer token is empty, malformed, badly signed or
\* expired, the gate (middleware on a protected path, get_current_user_id)
\* answers 401 with WWW-Authenticate: Bearer and the handler does not run.
C5_FailureIs401 ==
    LET fails(tok, t) ==
            \/ tok.text # "jwt"
            \/ tok.sig # "good"
            \/ Has(tok.claims.exp) /\ t >= Val(tok.claims.exp)
        rejected(r) ==
            r.status = 401 /\ r.www_authenticate = "Bearer" /\ ~r.handler
    IN /\ (last.op = "get_current_user_id" /\ fails(last.token, last.at))
              => rejected(last.resp)
       /\ ( /\ last.op = "dispatch"
            /\ last.method # "OPTIONS"
            /\ last.path = <<"/", "api/v1/", "tasks/1">>
            /\ last.header.present /\ last.header.nparts = 2
            /\ Lower(last.header.scheme) = "bearer"
            /\ fails(last.header.token, last.at) )
              => rejected(last.resp)

\* C6: verify_token never raises; the empty string fails as EMPTY, a string
\* without exactly three segments fails as MALFORMED before any decode, a
\* three-segment token with a wrong signature fails as BAD_SIGNATURE, also
\* when it is expired (signature is checked first).
C6_VerifyNeverRaises ==
    last.op = "verify_token" =>
        /\ last.result.kind # "raise"
        /\ last.token.text = "empty" =>
              last.result.kind = "None" /\ last.result.why = "EMPTY"
        /\ (last.token.text # "empty" /\ Split(last.token) # 3) =>
              /\ last.result.kind = "None"
              /\ last.result.why = "MALFORMED"
              /\ ~last.result.decoded
        /\ (last.token.text = "jwt" /\ last.token.sig = "bad") =>
              last.result.kind = "None" /\ last.result.why = "BAD_SIGNATURE"

\* C7: a correctly signed token with exp verifies at every now < exp and
\* fails as expired at every now >= exp; a token issued with a negative
\* lifetime fails as expired at the instant of issue.
C7_ExpiryBoundary ==
    /\ ( /\ last.op = "verify_token"
         /\ last.token.text = "jwt" /\ last.token.sig = "good"
         /\ Has(last.token.claims.exp) ) =>
           IF last.at < Val(last.token.claims.exp)
           THEN last.result.kind = "payload"
           ELSE last.result.kind = "None" /\ last.result.why = "EXPIRED"
    /\ ( /\ last.op = "create_access_token"
         /\ last.result.kind = "token"
         /\ Has(last.expires_delta) /\ Val(last.expires_delta) < 0 ) =>
           /\ verify_token(last.result.token, last.at).kind = "None"
           /\ verify_token(last.result.token, last.at).why = "EXPIRED"

C10_SameWireResponse ==
    LET fails(tok, t) ==
            \/ tok.text # "jwt"
            \/ tok.sig # "good"
            \/ Has(tok.claims.exp) /\ t >= Val(tok.claims.exp)
        cfails(c, t) == ~Has(c) \/ fails(Val(c), t)
        hfails(h, t) ==
            \/ ~h.present
            \/ h.nparts # 2
            \/ Lower(h.scheme) # "bearer"
            \/ fails(h.token, t)
        wire(r) == <<r.status, r.www_authenticate, r.detail>>
    IN /\ (last.op = "get_current_user_payload" /\ cfails(last.credentials, last.at)) =>
             /\ last.resp.status = 401
             /\ \A c \in Credentials(last.at) :
                   cfails(c, last.at) =>
                       wire(get_current_user_payload(c, last.at)) = wire(last.resp)
       /\ ( /\ last.op = "dispatch"
            /\ last.method # "OPTIONS"
            /\ last.path = <<"/", "api/v1/", "tasks/1">>
            /\ hfails(last.header, last.at) ) =>
             /\ last.resp.status = 401
             /\ \A h \in Headers :
                   hfails(h, last.at) =>
                       wire(JWTMiddleware_dispatch(last.method, last.path, h, last.at))
                           = wire(last.resp)

----------------------------------------------------------------------------
(* C11 .. C20 *)

\* C11: update, toggle and delete of a task id that is not stored answer 404,
\* whoever asks; of a stored task owned by another principal they answer 403;
\* in both cases the stored tasks are unchanged.
C11_NotFoundBeforeForbidden ==
    [][req'.op \in {"update_task", "toggle_task_completion", "delete_task"} =>
          /\ req'.id \notin DOMAIN tasks =>
                 req'.status = 404 /\ tasks' = tasks
          /\ (req'.id \in DOMAIN tasks /\ tasks[req'.id].user_id # req'.user) =>
                 req'.status = 403 /\ tasks' = tasks]_vars

C11_Witness ==
    /\ req.op = "delete_task"
    /\ req.status = 404
    /\ req.id \notin DOMAIN tasks
    /\ \E id \in DOMAIN tasks : tasks[id].user_id # req.user

----------------------------------------------------------------------------
(* The task endpoints behind Depends(get_current_user_id): the request      *)
(* carries a bearer token, the handler sees the user id the gate extracted. *)

authorize_user_for_task(task, current_user_id) ==
    IF task.user_id # current_user_id THEN 403 ELSE 0

\* update_task_as, had the role claim been wired to skip the ownership check
update_task_as_admin(tbl, task_id, task_update, token, t) ==
    LET g == get_current_user_id(token, t)
    IN IF ~g.handler THEN Answer(g.status, tbl, {})
       ELSE IF token.claims.role = "admin"
       THEN update_task_unchecked(tbl, task_id, task_update, g.user_id)
       ELSE update_task(tbl, task_id, task_update, g.user_id)

update_task_as(tbl, task_id, task_update, token, t) ==
    LET g == get_current_user_id(token, t)
    IN IF ~g.handler THEN Answer(g.status, tbl, {})
       ELSE update_task(tbl, task_id, task_update, g.user_id)

toggle_task_completion_as(tbl, task_id, token, t) ==
    LET g == get_current_user_id(token, t)
    IN IF ~g.handler THEN Answer(g.status, tbl, {})
       ELSE toggle_task_completion(tbl, task_id, g.user_id)

delete_task_as(tbl, task_id, token, t) ==
    LET g == get_current_user_id(token, t)
    IN IF ~g.handler THEN Answer(g.status, tbl, {})
       ELSE delete_task(tbl, task_id, g.user_id)

\* the tokens the login endpoint hands out at instant t
LoginTokens(t) ==
    { create_access_token([user_id |-> u, role |-> r], Absent, t).token :
        u \in Users, r \in Roles }

RoleUpdates == {tu \in TaskUpdates : tu.user_id = None /\ tu.description = None}

Principal(token) ==
    [op |-> "principal", user_id |-> token.claims.user_id, role |-> token.claims.role]

AuthUpdateTask ==
    \E token \in LoginTokens(now), id \in TaskIds, tu \in RoleUpdates :
        /\ LET a == update_task_as(tasks, id, tu, token, now)
           IN /\ tasks' = a.tasks
              /\ req' = Response("update_task", token.claims.user_id, id, None,
                                 a.status, a.listed)
        /\ last' = Principal(token)
        /\ UNCHANGED <<conversations, messages, now, counters, calls, metrics, todo, revoked>>

AuthToggleTaskCompletion ==
    \E token \in LoginTokens(now), id \in TaskIds :
        /\ LET a == toggle_task_completion_as(tasks, id, token, now)
           IN /\ tasks' = a.tasks
              /\ req' = Response("toggle_task_completion", token.claims.user_id, id,
                                 None, a.status, a.listed)
        /\ last' = Principal(token)
        /\ UNCHANGED <<conversations, messages, now, counters, calls, metrics, todo, revoked>>

AuthDeleteTask ==
    \E token \in LoginTokens(now), id \in TaskIds :
        /\ LET a == delete_task_as(tasks, id, token, now)
           IN /\ tasks' = a.tasks
              /\ req' = Response("delete_task", token.claims.user_id, id, None,
                                 a.status, a.listed)
        /\ last' = Principal(token)
        /\ UNCHANGED <<conversations, messages, now, counters, calls, metrics, todo, revoked>>

NextRole ==
    \/ CreateTask(OwnerPayloads)
    \/ AuthUpdateTask
    \/ AuthToggleTaskCompletion
    \/ AuthDeleteTask

SpecRole == Init /\ [][NextRole]_vars

\* C12: a principal whose token says role admin is refused (403, nothing
\* changed) on update, toggle and delete of every task it does not own, as a
\* principal with role user is.
C12_AdminNoBypass ==
    [][(/\ last'.op = "principal"
        /\ req'.op \in {"update_task", "toggle_task_completion", "delete_task"}
        /\ req'.id \in DOMAIN tasks
        /\ tasks[req'.id].user_id # last'.user_id) =>
           /\ req'.status = 403
           /\ tasks' = tasks
           /\ authorize_user_for_task(tasks[req'.id], last'.user_id) = 403]_vars

C12_Witness ==
    /\ last.op = "principal"
    /\ last.role = "admin"
    /\ req.op = "update_task"
    /\ req.status = 403
    /\ req.id \in DOMAIN tasks
    /\ tasks[req.id].user_id # last.user_id

----------------------------------------------------------------------------
(* The conversation endpoints of chat.py: each returns [status,            *)
(* conversations, messages, listed].                                        *)

ConversationService_list_conversations(convs, user_id) ==
    {i \in DOMAIN convs : convs[i].user_id = user_id}

\* Deleting a conversation row that still has messages sets their
\* conversation_id to NULL, which the column refuses (nullable=False).
ConversationService_delete_conversation(convs, msgs, conversation_id, user_id) ==
    IF ConversationService_get_conversation(convs, conversation_id, user_id) = 0
    THEN [result |-> "False", conversations |-> convs]
    ELSE IF conversation_id \in DOMAIN msgs /\ msgs[conversation_id] # <<>>
    THEN [result |-> "IntegrityError", conversations |-> convs]
    ELSE [result |-> "True", conversations |-> Without(convs, conversation_id)]

ConvAnswer(status, convs, msgs, listed) ==
    [status |-> status, conversations |-> convs, messages |-> msgs, listed |-> listed]

list_conversations(convs, msgs, current_user_id) ==
    ConvAnswer(200, convs, msgs,
               ConversationService_list_conversations(convs, current_user_id))

get_conversation(convs, msgs, conversation_id, current_user_id) ==
    IF ConversationService_get_conversation(convs, conversation_id, current_user_id) = 0
    THEN ConvAnswer(404, convs, msgs, {})
    ELSE ConvAnswer(200, convs, msgs, {conversation_id})

delete_conversation(convs, msgs, conversation_id, current_user_id) ==
    LET r == ConversationService_delete_conversation(
                 convs, msgs, conversation_id, current_user_id)
    IN IF r.result = "False" THEN ConvAnswer(404, convs, msgs, {})
       ELSE IF r.result = "IntegrityError" THEN ConvAnswer(500, convs, msgs, {})
       ELSE ConvAnswer(204, r.conversations, msgs, {})

get_conversation_messages(convs, msgs, conversation_id, current_user_id) ==
    IF ConversationService_get_conversation(convs, conversation_id, current_user_id) = 0
    THEN ConvAnswer(404, convs, msgs, {})
    ELSE ConvAnswer(200, convs, msgs, {conversation_id})

\* add_message looking the conversation up by id alone
add_message_any_owner(convs, msgs, conversation_id, sender, current_user_id) ==
    IF conversation_id \notin DOMAIN convs
    THEN ConvAnswer(404, convs, msgs, {})
    ELSE IF sender \notin {"user", "ai"}
    THEN ConvAnswer(400, convs, msgs, {})
    ELSE ConvAnswer(201, convs,
                    ConversationService_add_message(msgs, conversation_id, sender),
                    {conversation_id})

add_message(convs, msgs, conversation_id, sender, current_user_id) ==
    IF ConversationService_get_conversation(convs, conversation_id, current_user_id) = 0
    THEN ConvAnswer(404, convs, msgs, {})
    ELSE IF sender \notin {"user", "ai"}
    THEN ConvAnswer(400, convs, msgs, {})
    ELSE ConvAnswer(201, convs,
                    ConversationService_add_message(msgs, conversation_id, sender),
                    {conversation_id})

ConversationIds == 1 .. MaxConversationId

Senders == {"ai", "system"}

ListConversations ==
    \E u \in Users :
        /\ LET a == list_conversations(conversations, messages, u)
           IN /\ conversations' = a.conversations
              /\ messages' = a.messages
              /\ req' = Response("list_conversations", u, 0, None, a.status, a.listed)
        /\ UNCHANGED <<tasks, now, last, counters, calls, metrics, todo, revoked>>

GetConversation ==
    \E u \in Users, id \in ConversationIds :
        /\ LET a == get_conversation(conversations, messages, id, u)
           IN /\ conversations' = a.conversations
              /\ messages' = a.messages
              /\ req' = Response("get_conversation", u, id, None, a.status, a.listed)
        /\ UNCHANGED <<tasks, now, last, counters, calls, metrics, todo, revoked>>

DeleteConversation ==
    \E u \in Users, id \in ConversationIds :
        /\ LET a == delete_conversation(conversations, messages, id, u)
           IN /\ conversations' = a.conversations
              /\ messages' = a.messages
              /\ req' = Response("delete_conversation", u, id, None, a.status, a.listed)
        /\ UNCHANGED <<tasks, now, last, counters, calls, metrics, todo, revoked>>

GetConversationMessages ==
    \E u \in Users, id \in ConversationIds :
        /\ LET a == get_conversation_messages(conversations, messages, id, u)
           IN /\ conversations' = a.conversations
              /\ messages' = a.messages
              /\ req' = Response("get_conversation_messages", u, id, None,
                                 a.status, a.listed)
        /\ UNCHANGED <<tasks, now, last, counters, calls, metrics, todo, revoked>>

AddMessage ==
    \E u \in Users, id \in ConversationIds, sender \in Senders :
        /\ id \in DOMAIN messages => Len(messages[id]) + 1 <= MaxMessages
        /\ LET a == add_message(conversations, messages, id, sender, u)
           IN /\ conversations' = a.conversations
              /\ messages' = a.messages
              /\ req' = Response("add_message", u, id, None, a.status, a.listed)
        /\ UNCHANGED <<tasks, now, last, counters, calls, metrics, todo, revoked>>

NextChat ==
    \/ SendChatMessage({0})
    \/ ListConversations
    \/ GetConversation
    \/ DeleteConversation
    \/ GetConversationMessages
    \/ AddMessage

SpecChat == Init /\ [][NextChat]_vars

\* C13: get, delete, list-messages and add-message on a conversation the
\* requester does not own answer 404, as for a conversation that does not
\* exist, and change neither conversations nor messages; a conversation list
\* holds exactly the requester's conversations.
C13_ConversationNotFound ==
    [][/\ (/\ req'.op \in {"get_conversation", "delete_conversation",
                           "get_conversation_messages", "add_message"}
           /\ \/ req'.id \notin DOMAIN conversations
              \/ conversations[req'.id].user_id # req'.user) =>
              /\ req'.status = 404
              /\ conversations' = conversations
              /\ messages' = messages
       /\ req'.op = "list_conversations" =>
              /\ req'.status = 200
              /\ req'.listed =
                     {i \in DOMAIN conversations : conversations[i].user_id = req'.user}]_vars

C13_Witness ==
    /\ req.op = "add_message"
    /\ req.status = 404
    /\ req.id \in DOMAIN conversations
    /\ conversations[req.id].user_id # req.user
    /\ \E id \in DOMAIN conversations : conversations[id].user_id = req.user

----------------------------------------------------------------------------
\* C14: create_access_token refuses a user_id that is present but empty or
\* longer than 255 bytes with the invalid-user_id error, and a role that is
\* present and neither user nor admin with the invalid-role error; no other
\* failure and no token comes out.
C14_IssueRejects ==
    last.op = "create_access_token" =>
        /\ ( /\ last.data.user_id # None
             /\ \/ UserIdBytes(last.data.user_id) = 0
                \/ UserIdBytes(last.data.user_id) > 255 ) =>
               /\ last.result.kind = "raise"
               /\ last.result.why = "ValueError: Invalid user_id"
        /\ ( /\ last.data.user_id = None \/ UserIdBytes(last.data.user_id) \in 1..255
             /\ last.data.role # None
             /\ last.data.role \notin {"user", "admin"} ) =>
               /\ last.result.kind = "raise"
               /\ last.result.why = "ValueError: Invalid role"

\* C15: create_access_token returns no token for data without user_id, and
\* every payload verify_token returns has a user_id.
C15_SubjectRequired ==
    /\ (last.op = "create_access_token" /\ last.data.user_id = None) =>
           last.result.kind # "token"
    /\ (last.op = "verify_token" /\ last.result.kind = "payload") =>
           last.result.payload.user_id # None

\* C16: the token create_access_token returns has exp = now + expires_delta
\* for every expires_delta given (zero and negative too) and now + the
\* default only when none is given; iat = nbf = now; verified at once, a
\* token with a future exp gives back the keys of data with exp, iat, nbf.
C16_IssueClaims ==
    (last.op = "create_access_token" /\ last.result.kind = "token") =>
        LET c == last.result.token.claims
            v == verify_token(last.result.token, last.at)
        IN /\ c.exp = IF Has(last.expires_delta)
                      THEN <<last.at + Val(last.expires_delta)>>
                      ELSE <<last.at + JWT_EXPIRATION_DELTA>>
           /\ c.iat = <<last.at>>
           /\ c.nbf = <<last.at>>
           /\ Val(c.exp) > last.at =>
                 /\ v.kind = "payload"
                 /\ v.payload.user_id = last.data.user_id
                 /\ v.payload.role = last.data.role
                 /\ v.payload.exp = c.exp
                 /\ v.payload.iat = c.iat
                 /\ v.payload.nbf = c.nbf

----------------------------------------------------------------------------
(* RateLimiter. The counter store is Redis: each key holds a sorted set and *)
(* an optional time to live. _increment_counter adds str(current_time) as   *)
(* member with current_time as score, so a sorted set is the set of the     *)
(* timestamps added to it. counters maps each existing key to its row.      *)

MaxCalls == 5

default_limits ==
    [requests_per_minute |-> 100, requests_per_hour |-> 1000, requests_per_day |-> 10000]

\* the limits configured for the endpoint under test
EndpointLimits ==
    [requests_per_minute |-> 2, requests_per_hour |-> 3, requests_per_day |-> 4]

Key(user_id, endpoint, window) == <<"rate_limit", user_id, endpoint, window>>

KeyRow(members, expire_at) == [members |-> members, expire_at |-> expire_at]

\* removes the members with lo <= score <= hi; an emptied key is deleted
zremrangebyscore(store, key, lo, hi) ==
    IF key \notin DOMAIN store THEN store
    ELSE LET kept == {m \in store[key].members : ~(lo <= m /\ m <= hi)}
         IN IF kept = {} THEN Without(store, key)
            ELSE With(store, key, KeyRow(kept, store[key].expire_at))

\* adds a member, or rescoring the member when it is already there
zadd(store, key, member) ==
    IF key \in DOMAIN store
    THEN With(store, key,
              KeyRow(store[key].members \cup {member}, store[key].expire_at))
    ELSE With(store, key, KeyRow({member}, Absent))

\* t is the store's clock
expire(store, key, seconds, t) ==
    IF key \in DOMAIN store
    THEN With(store, key, KeyRow(store[key].members, <<t + seconds>>))
    ELSE store

zcard(store, key) ==
    IF key \in DOMAIN store THEN Cardinality(store[key].members) ELSE 0

\* the store drops every key whose time to live has run out
Purge(store, t) ==
    [k \in {x \in DOMAIN store :
               ~(Has(store[x].expire_at) /\ Val(store[x].expire_at) <= t)} |-> store[k]]

increment_counter(store, key, current_time, window_seconds) ==
    LET s1 == zremrangebyscore(store, key, 0, current_time - window_seconds)
        s2 == zadd(s1, key, current_time)
        s3 == expire(s2, key, window_seconds, current_time)
    IN [count |-> zcard(s3, key), store |-> s3]

RateResult(blocked, by, store) == [blocked |-> blocked, by |-> by, store |-> store]

\* is_rate_limited evaluating the three windows before it decides
is_rate_limited_eager(store, user_id, endpoint, limits, current_time) ==
    IF user_id = None \/ user_id = "" \/ user_id = "unknown"
    THEN RateResult(FALSE, "none", store)
    ELSE LET lim == IF Has(limits) THEN Val(limits) ELSE default_limits
             m == increment_counter(store, Key(user_id, endpoint, "minute"),
                                    current_time, 60)
             h == increment_counter(m.store, Key(user_id, endpoint, "hour"),
                                    current_time, 3600)
             d == increment_counter(h.store, Key(user_id, endpoint, "day"),
                                    current_time, 86400)
         IN IF m.count > lim.requests_per_minute THEN RateResult(TRUE, "minute", d.store)
            ELSE IF h.count > lim.requests_per_hour THEN RateResult(TRUE, "hour", d.store)
            ELSE IF d.count > lim.requests_per_day THEN RateResult(TRUE, "day", d.store)
            ELSE RateResult(FALSE, "none", d.store)

\* limits is <<>> when the caller passes none
is_rate_limited(store, user_id, endpoint, limits, current_time) ==
    IF user_id = None \/ user_id = "" \/ user_id = "unknown"
    THEN RateResult(FALSE, "none", store)
    ELSE LET lim == IF Has(limits) THEN Val(limits) ELSE default_limits
             m == increment_counter(store, Key(user_id, endpoint, "minute"),
                                    current_time, 60)
         IN IF m.count > lim.requests_per_minute
            THEN RateResult(TRUE, "minute", m.store)
            ELSE LET h == increment_counter(m.store, Key(user_id, endpoint, "hour"),
                                            current_time, 3600)
                 IN IF h.count > lim.requests_per_hour
                    THEN RateResult(TRUE, "hour", h.store)
                    ELSE LET d == increment_counter(
                                      h.store, Key(user_id, endpoint, "day"),
                                      current_time, 86400)
                         IN IF d.count > lim.requests_per_day
                            THEN RateResult(TRUE, "day", d.store)
                            ELSE RateResult(FALSE, "none", d.store)

\* The instants at which the clock is read: around the start and each
\* window's length after it.
RateInstants ==
    {60} \cup { 1 + w + e : w \in {0, 60, 3600, 86400}, e \in {0, 1} }

\* a call of is_rate_limited: the time it read, where it stands, its answer
Call_(user_id, t, pc, window, blocked, by, peers) ==
    [user_id |-> user_id, t |-> t, pc |-> pc, window |-> window,
     blocked |-> blocked, by |-> by, peers |-> peers]

RateTick ==
    /\ \E t \in RateInstants :
           /\ t > now
           /\ now' = t
           /\ counters' = Purge(counters, t)
    /\ UNCHANGED <<tasks, conversations, messages, req, last, calls, metrics, todo, revoked>>

IsRateLimited ==
    /\ Len(calls) < MaxCalls
    /\ LET r == is_rate_limited(counters, "A", "/e", <<EndpointLimits>>, now)
       IN /\ counters' = r.store
          /\ calls' = Append(calls, Call_("A", now, "done", "none", r.blocked, r.by, 1))
    /\ UNCHANGED <<tasks, conversations, messages, req, now, last, metrics, todo, revoked>>

\* a request without X-User-Id, and one that passes no limits
IsRateLimitedUnknown ==
    /\ \E u \in {"unknown", ""} :
         LET r == is_rate_limited(counters, u, "/e", Absent, now)
         IN /\ counters' = r.store
            /\ last' = [op |-> "is_rate_limited", user_id |-> u, blocked |-> r.blocked]
    /\ UNCHANGED <<tasks, conversations, messages, req, now, calls, metrics, todo, revoked>>

NextRate ==
    \/ RateTick
    \/ IsRateLimited
    \/ IsRateLimitedUnknown

SpecRate == Init /\ [][NextRate]_vars

----------------------------------------------------------------------------
(* Claims C17 .. C19 about the rate limiter, under SpecRate, where the      *)
(* calls of one principal for one endpoint run one after the other.         *)

LastCall == calls[Len(calls)]

\* the calls up to the k-th that read a time within w seconds before its own
SentInWindow(k, w) ==
    Cardinality({ j \in 1..k : calls[j].t > calls[k].t - w })

\* C17: with a threshold of N requests per 60 seconds, a request is admitted
\* by the minute window while it is among the first N requests sent within
\* the 60 seconds that end with it (so also the first one after a pause
\* longer than the window), and it is rejected when it is the N+1st or later.
C17_MinuteThreshold ==
    \A k \in 1..Len(calls) :
        (calls[k].by = "minute")
            <=> (SentInWindow(k, 60) > EndpointLimits.requests_per_minute)

AdmittedIn(w) ==
    { j \in 1..Len(calls) : ~calls[j].blocked /\ calls[j].t > now - w }

EvaluatedBy(c, window) ==
    \/ window = "minute"
    \/ window = "hour" /\ c.by # "minute"
    \/ window = "day" /\ c.by \in {"day", "none"}

Seconds(window) ==
    CASE window = "minute" -> 60 [] window = "hour" -> 3600 [] window = "day" -> 86400

\* C18: at the instant a call has evaluated a window, the cardinality of
\* that window's counter is the number of admitted requests of the key with
\* a timestamp in (now - window_size, now]: one per request, none for a
\* rejected request, none for a timestamp of exactly now - window_size.
C18_CardinalityIsAdmitted ==
    (Len(calls) > 0 /\ LastCall.t = now) =>
        \A window \in {"minute", "hour", "day"} :
            EvaluatedBy(LastCall, window) =>
                zcard(counters, Key("A", "/e", window))
                    = Cardinality(AdmittedIn(Seconds(window)))

RowOf(store, key) ==
    IF key \in DOMAIN store THEN <<store[key]>> ELSE <<>>

\* C19: a call that the minute window blocks leaves the hour and the day
\* counter of its key as they were (members and time to live), and a call
\* that the hour window blocks leaves the day counter as it was.
C19_ShortCircuit ==
    [][ (calls' # calls) =>
          LET c == calls'[Len(calls')]
              Same(window) ==
                  RowOf(counters', Key(c.user_id, "/e", window))
                      = RowOf(counters, Key(c.user_id, "/e", window))
          IN /\ (c.by = "minute") => (Same("hour") /\ Same("day"))
             /\ (c.by = "hour") => Same("day") ]_vars

\* the minute window has just blocked a call at a time the hour counter,
\* which holds earlier requests, has no entry for
C19_Witness ==
    /\ Len(calls) > 0
    /\ LastCall.by = "minute"
    /\ LastCall.t = now
    /\ Key("A", "/e", "hour") \in DOMAIN counters
    /\ now \notin counters[Key("A", "/e", "hour")].members
    /\ now \notin counters[Key("A", "/e", "day")].members

----------------------------------------------------------------------------
(* Concurrent calls of is_rate_limited. Each counter-store operation of     *)
(* _increment_counter is a request of its own to the store, so the calls of *)
(* several workers interleave between any two of them. A call reads the     *)
(* clock once, when it begins; the store applies expire at its own clock.   *)

MaxRaceCalls == 3

RaceLimits ==
    [requests_per_minute |-> 1, requests_per_hour |-> 2, requests_per_day |-> 3]

RaceInstants == {1, 2, 61}

Limit(limits, window) ==
    CASE window = "minute" -> limits.requests_per_minute
      [] window = "hour" -> limits.requests_per_hour
      [] window = "day" -> limits.requests_per_day

NextWindow(window) ==
    CASE window = "minute" -> "hour" [] window = "hour" -> "day" [] window = "day" -> "none"

InFlight == { i \in 1..Len(calls) : calls[i].pc # "done" }

At(i, pc) == i \in 1..Len(calls) /\ calls[i].pc = pc

CallKey(c) == Key(c.user_id, "/e", c.window)

RaceFrame == UNCHANGED <<tasks, conversations, messages, req, now, last, metrics, todo, revoked>>

\* the call passes the user_id test, takes its limits and reads the clock
Begin ==
    /\ Len(calls) < MaxRaceCalls
    /\ LET n == Cardinality(InFlight) + 1
           seen == [i \in 1..Len(calls) |->
                      IF i \in InFlight /\ calls[i].peers < n
                      THEN [calls[i] EXCEPT !.peers = n] ELSE calls[i]]
       IN calls' = Append(seen, Call_("A", now, "evict", "minute", FALSE, "none", n))
    /\ UNCHANGED counters
    /\ RaceFrame

Evict ==
    /\ \E i \in 1..Len(calls) :
         /\ At(i, "evict")
         /\ counters' = zremrangebyscore(counters, CallKey(calls[i]), 0,
                                         calls[i].t - Seconds(calls[i].window))
         /\ calls' = [calls EXCEPT ![i].pc = "add"]
    /\ RaceFrame

Add ==
    /\ \E i \in 1..Len(calls) :
         /\ At(i, "add")
         /\ counters' = zadd(counters, CallKey(calls[i]), calls[i].t)
         /\ calls' = [calls EXCEPT ![i].pc = "expire"]
    /\ RaceFrame

Expire ==
    /\ \E i \in 1..Len(calls) :
         /\ At(i, "expire")
         /\ counters' = expire(counters, CallKey(calls[i]),
                               Seconds(calls[i].window), now)
         /\ calls' = [calls EXCEPT ![i].pc = "count"]
    /\ RaceFrame

\* zcard and the comparison with the window's limit
Count ==
    /\ \E i \in 1..Len(calls) :
         /\ At(i, "count")
         /\ LET c == calls[i]
                over == zcard(counters, CallKey(c)) > Limit(RaceLimits, c.window)
            IN calls' = [calls EXCEPT ![i] =
                   IF over
                   THEN [c EXCEPT !.pc = "done", !.blocked = TRUE, !.by = c.window]
                   ELSE IF c.window = "day"
                   THEN [c EXCEPT !.pc = "done"]
                   ELSE [c EXCEPT !.pc = "evict", !.window = NextWindow(c.window)]]
    /\ UNCHANGED counters
    /\ RaceFrame

RaceTick ==
    /\ \E t \in RaceInstants :
           /\ t > now
           /\ now' = t
           /\ counters' = Purge(counters, t)
    /\ UNCHANGED <<tasks, conversations, messages, req, last, calls, metrics, todo, revoked>>

NextRace ==
    \/ Begin
    \/ Evict
    \/ Add
    \/ Expire
    \/ Count
    \/ RaceTick

SpecRace == Init /\ [][NextRace]_vars

\* C20: once every concurrent call has finished, the minute counter holds
\* one entry for each call that read a time within the window, and the
\* admitted requests of the window exceed the threshold by no more than the
\* largest number of calls that were in flight together.
C20_RaceBounded ==
    (Len(calls) > 0 /\ InFlight = {}) =>
        LET key == Key("A", "/e", "minute")
            inWindow == { j \in 1..Len(calls) : calls[j].t > now - 60 }
            entries == IF key \in DOMAIN counters
                       THEN { m \in counters[key].members : m > now - 60 }
                       ELSE {}
            admitted == { j \in inWindow : ~calls[j].blocked }
        IN /\ Cardinality(entries) = Cardinality(inWindow)
           /\ \E j \in 1..Len(calls) :
                  Cardinality(admitted) - RaceLimits.requests_per_minute
                      <= calls[j].peers

----------------------------------------------------------------------------
(* UsageTracker. self.metrics is the variable metrics; the per-user and     *)
(* per-endpoint hashes live in the same Redis as the rate limiter's sorted  *)
(* sets (both clients are made from the same default URL), under keys of    *)
(* their own.                                                               *)

MaxTracked == 2

UserKey(user_id) == <<"usage", "users", user_id>>

EndpointKey(endpoint) == <<"usage", "endpoints", endpoint>>

HashRow(fields) == [fields |-> fields, expire_at |-> Absent]

hget(store, key, field) ==
    IF key \in DOMAIN store /\ field \in DOMAIN store[key].fields
    THEN store[key].fields[field] ELSE 0

hincrby(store, key, field, amount) ==
    LET fields == IF key \in DOMAIN store THEN store[key].fields ELSE <<>>
    IN With(store, key,
            [fields |-> With(fields, field, hget(store, key, field) + amount),
             expire_at |-> IF key \in DOMAIN store THEN store[key].expire_at
                           ELSE Absent])

Tracked(m, store) == [metrics |-> m, store |-> store]

\* track_request that takes a failure back out of the successes
track_request_netted(m, store, user_id, status) ==
    LET m1 == [m EXCEPT !.requests = @ + 1]
        m2 == IF status = "success"
              THEN [m1 EXCEPT !.successful_requests = @ + 1]
              ELSE [m1 EXCEPT !.failed_requests = @ + 1,
                              !.successful_requests = @ - 1]
        s1 == hincrby(store, UserKey(user_id), "requests", 1)
    IN Tracked(m2, hincrby(s1, UserKey(user_id), status, 1))

track_request(m, store, user_id, status) ==
    LET m1 == [m EXCEPT !.requests = @ + 1]
        m2 == IF status = "success"
              THEN [m1 EXCEPT !.successful_requests = @ + 1]
              ELSE [m1 EXCEPT !.failed_requests = @ + 1]
        s1 == hincrby(store, UserKey(user_id), "requests", 1)
    IN Tracked(m2, hincrby(s1, UserKey(user_id), status, 1))

track_database_query(m, store, user_id, query_type) ==
    LET s1 == hincrby(store, UserKey(user_id), "database_queries", 1)
    IN Tracked([m EXCEPT !.database_queries = @ + 1],
               hincrby(s1, UserKey(user_id), "db_" \o query_type \o "_queries", 1))

track_api_call(m, store, endpoint, status) ==
    LET s1 == hincrby(store, EndpointKey(endpoint), "calls", 1)
    IN Tracked([m EXCEPT !.api_calls = @ + 1],
               hincrby(s1, EndpointKey(endpoint), status, 1))

track_user_message(m, store, user_id) ==
    Tracked([m EXCEPT !.user_messages = @ + 1],
            hincrby(store, UserKey(user_id), "user_messages", 1))

track_ai_response(m, store, user_id) ==
    Tracked([m EXCEPT !.ai_responses = @ + 1],
            hincrby(store, UserKey(user_id), "ai_responses", 1))

\* the track_* calls made so far
TrackCalls ==
    metrics.requests + metrics.database_queries + metrics.api_calls
        + metrics.user_messages + metrics.ai_responses

\* status "requests" and "calls" name the field the call has just incremented
Statuses == {"success", "error", "requests", "calls"}

UsageFrame ==
    UNCHANGED <<tasks, conversations, messages, req, now, last, calls, todo, revoked>>

TrackRequest ==
    /\ TrackCalls < MaxTracked
    /\ \E status \in Statuses :
         LET r == track_request(metrics, counters, "A", status)
         IN metrics' = r.metrics /\ counters' = r.store
    /\ UsageFrame

TrackDatabaseQuery ==
    /\ TrackCalls < MaxTracked
    /\ LET r == track_database_query(metrics, counters, "A", "read")
       IN metrics' = r.metrics /\ counters' = r.store
    /\ UsageFrame

TrackApiCall ==
    /\ TrackCalls < MaxTracked
    /\ \E status \in Statuses :
         LET r == track_api_call(metrics, counters, "/e", status)
         IN metrics' = r.metrics /\ counters' = r.store
    /\ UsageFrame

TrackUserMessage ==
    /\ TrackCalls < MaxTracked
    /\ LET r == track_user_message(metrics, counters, "A")
       IN metrics' = r.metrics /\ counters' = r.store
    /\ UsageFrame

TrackAiResponse ==
    /\ TrackCalls < MaxTracked
    /\ LET r == track_ai_response(metrics, counters, "A")
       IN metrics' = r.metrics /\ counters' = r.store
    /\ UsageFrame

NextUsage ==
    \/ Tick
    \/ IsRateLimited
    \/ TrackRequest
    \/ TrackDatabaseQuery
    \/ TrackApiCall
    \/ TrackUserMessage
    \/ TrackAiResponse

SpecUsage == Init /\ [][NextUsage]_vars

MetricNames == DOMAIN metrics

UsageKeys(store) == { k \in DOMAIN store : k[1] = "usage" }

NoUsage(store) == [k \in DOMAIN store \ UsageKeys(store) |-> store[k]]

Admission(store) == is_rate_limited(store, "A", "/e", <<EndpointLimits>>, now).blocked

\* C21: no step lowers a counter of the UsageTracker (a metric, or a field of
\* a per-principal or per-endpoint hash, which once present stays present),
\* and is_rate_limited decides the same with the tracker's state as without.
C21_UsageMonotonic ==
    [][ /\ \A n \in MetricNames : metrics'[n] >= metrics[n]
        /\ \A k \in UsageKeys(counters) :
              /\ k \in DOMAIN counters'
              /\ \A f \in DOMAIN counters[k].fields :
                    hget(counters', k, f) >= counters[k].fields[f]
        /\ Admission(counters') = Admission(NoUsage(counters')) ]_vars

\* two failed requests have been tracked and the minute window is blocking
C21_Witness ==
    /\ metrics.failed_requests = 2
    /\ hget(counters, UserKey("A"), "requests") = 2
    /\ Admission(counters)

----------------------------------------------------------------------------
(* The revoke endpoint. revoked is not state of the program: it records the *)
(* tokens the endpoint has answered "revoked" for.                          *)

MaxRevoked == 2

\* credentials is <<>> when HTTPBearer found no bearer credentials
revoke_token(credentials) ==
    IF ~Has(credentials) THEN [status |-> 403, revoked |-> FALSE]
    ELSE [status |-> 200, revoked |-> TRUE]

\* the tokens of principal "A" handed out up to instant t
TokensOfA(t) ==
    { Signed(c, "good") : c \in { x \in IssuedClaims(t) : x.user_id = "A" } }

RevokeFrame ==
    UNCHANGED <<tasks, conversations, messages, req, now, counters, calls, metrics,
                todo>>

Login ==
    /\ last' = [op |-> "login", at |-> now,
                result |-> create_access_token([user_id |-> "A", role |-> "user"],
                                               Absent, now)]
    /\ UNCHANGED revoked
    /\ RevokeFrame

RevokeToken ==
    /\ \E credentials \in {Absent} \cup { <<tok>> : tok \in TokensOfA(now) } :
         LET r == revoke_token(credentials)
             seen == IF r.revoked THEN revoked \cup {Val(credentials)} ELSE revoked
         IN /\ Cardinality(seen) <= MaxRevoked
            /\ revoked' = seen
            /\ last' = [op |-> "revoke_token", at |-> now, result |-> r]
    /\ RevokeFrame

VerifyRevoked ==
    /\ \E tok \in revoked :
         last' = [op |-> "verify_token", at |-> now, token |-> tok,
                  result |-> verify_token(tok, now)]
    /\ UNCHANGED revoked
    /\ RevokeFrame

NextRevoke ==
    \/ Tick
    \/ Login
    \/ RevokeToken
    \/ VerifyRevoked

SpecRevoke == Init /\ [][NextRevoke]_vars

\* C22: a token the revoke endpoint was called with is verified
\* successfully, with its claims returned, at every instant before its exp,
\* whatever tokens have been issued or revoked since.
C22_RevokedStillValid ==
    \A tok \in revoked :
        (Has(tok.claims.exp) /\ now < Val(tok.claims.exp)) =>
            /\ verify_token(tok, now).kind = "payload"
            /\ verify_token(tok, now).payload = tok.claims

\* a revoked token was verified successfully at an instant after it was
\* issued, when a newer token of the same principal had been issued and
\* revoked as well
C22_Witness ==
    /\ last.op = "verify_token"
    /\ last.token \in revoked
    /\ last.result.kind = "payload"
    /\ last.at > Val(last.token.claims.iat)
    /\ \E newer \in revoked :
          Val(newer.claims.iat) > Val(last.token.claims.iat)

----------------------------------------------------------------------------
(* The refresh endpoint *)

Refreshed(status, detail, token) ==
    [status |-> status, detail |-> detail, access_token |-> token]

\* deps.refresh_access_token: the payload without its exp goes to
\* create_access_token, which sets exp, iat and nbf anew
refresh_access_token(current_user_payload, t) ==
    create_access_token([user_id |-> current_user_payload.user_id,
                         role |-> current_user_payload.role], Absent, t)

refresh_token(credentials, t) ==
    IF ~Has(credentials) THEN Refreshed(403, "Not authenticated", EmptyToken)
    ELSE LET r == verify_token(Val(credentials), t)
         IN IF r.kind = "raise"
            THEN Refreshed(500, "Internal Server Error", EmptyToken)
            ELSE IF r.kind = "None"
            THEN Refreshed(401, "Invalid token", EmptyToken)
            ELSE LET new_token == refresh_access_token(r.payload, t)
                 IN IF new_token.kind = "raise"
                    THEN Refreshed(500, "Internal Server Error", EmptyToken)
                    ELSE Refreshed(200, "", new_token.token)

RefreshTokens(t) ==
    { Signed(c, sg) : c \in { x \in IssuedClaims(t) : x.user_id = "A" },
                      sg \in {"good", "bad"} }

RefreshToken ==
    /\ \E credentials \in {Absent} \cup { <<tok>> : tok \in RefreshTokens(now) } :
         last' = [op |-> "refresh_token", at |-> now, credentials |-> credentials,
                  result |-> refresh_token(credentials, now)]
    /\ UNCHANGED revoked
    /\ RevokeFrame

NextRefresh ==
    \/ Tick
    \/ Login
    \/ RefreshToken

SpecRefresh == Init /\ [][NextRefresh]_vars

\* C23: refresh, given a correctly signed token whose exp has passed,
\* answers 200 with a new token that carries the same user_id and role and
\* an exp in the future.
C23_RefreshRenewsExpired ==
    (/\ last.op = "refresh_token"
     /\ Has(last.credentials)
     /\ Val(last.credentials).sig = "good"
     /\ last.at > Val(Val(last.credentials).claims.exp))
    => /\ last.result.status = 200
       /\ last.result.access_token.claims.user_id
              = Val(last.credentials).claims.user_id
       /\ last.result.access_token.claims.role = Val(last.credentials).claims.role
       /\ Val(last.result.access_token.claims.exp) > last.at

----------------------------------------------------------------------------
(* Claims C24 and C29 about the gates, under SpecAuth *)

\* the request is neither a preflight nor for a path the middleware is meant
\* to leave open
Protected(method, path) ==
    /\ method # "OPTIONS"
    /\ path # <<"/">>
    /\ ~\E route \in public_routes \ {<<"/">>} : StartsWith(path, route)

\* C24: a request for a protected path whose Authorization header is present
\* but is not "Bearer", one space, one non-empty token (one part only, an
\* empty value, another scheme, three parts) is answered 401 and its token
\* is not given to verify_token.
C24_MalformedHeader ==
    (/\ last.op = "dispatch"
     /\ Protected(last.method, last.path)
     /\ last.header.present
     /\ \/ last.header.nparts # 2
        \/ Lower(last.header.scheme) # "bearer"
        \/ last.header.token.text = "empty")
    => /\ last.resp.status = 401
       /\ last.resp.checked = "no"

\* C29: the middleware and get_current_user_id let a request through only
\* with a user_id that is present, and they let through the same tokens: a
\* correctly signed, unexpired token without user_id gets 401 from both.
C29_GatesAgree ==
    /\ (last.op \in {"dispatch", "get_current_user_id"} /\ last.resp.handler
          /\ (last.op = "dispatch" => Protected(last.method, last.path)))
       => last.resp.user_id # None
    /\ (/\ last.op = "dispatch"
        /\ Protected(last.method, last.path)
        /\ last.header.present
        /\ last.header.nparts = 2
        /\ last.header.scheme = "Bearer")
       => /\ last.resp.handler = get_current_user_id(last.header.token, last.at).handler
          /\ last.resp.status = get_current_user_id(last.header.token, last.at).status

----------------------------------------------------------------------------
(* TaskService called with a current_user_id, as ChatAgent.execute_tool_calls *)
(* does for the tools complete_task, delete_task and update_task.           *)

\* the values a caller provides as current_user_id
ProvidedUserIds == Users \cup {""}

ToolCall(op, current_user_id, task_id, owner, result) ==
    [op |-> op, current_user_id |-> current_user_id, task_id |-> task_id,
     owner |-> owner, result |-> result]

OwnerOf(tbl, task_id) == IF task_id \in DOMAIN tbl THEN tbl[task_id].user_id ELSE None

ServiceFrame ==
    UNCHANGED <<conversations, messages, req, now, counters, calls, metrics, todo,
                revoked>>

ServiceUpdateTask ==
    /\ \E u \in ProvidedUserIds, id \in TaskIds, tu \in RoleUpdates :
         LET r == TaskService_update_task(tasks, id, tu, u)
         IN /\ tasks' = r.tasks
            /\ last' = ToolCall("update_task", u, id, OwnerOf(tasks, id), r.result)
    /\ ServiceFrame

ServiceToggleTaskCompletion ==
    /\ \E u \in ProvidedUserIds, id \in TaskIds :
         LET r == TaskService_toggle_task_completion(tasks, id, u)
         IN /\ tasks' = r.tasks
            /\ last' = ToolCall("complete_task", u, id, OwnerOf(tasks, id), r.result)
    /\ ServiceFrame

ServiceDeleteTask ==
    /\ \E u \in ProvidedUserIds, id \in TaskIds :
         LET r == TaskService_delete_task(tasks, id, u)
         IN /\ tasks' = r.tasks
            /\ last' = ToolCall("delete_task", u, id, OwnerOf(tasks, id), r.result)
    /\ ServiceFrame

NextService ==
    \/ CreateTask(OwnerPayloads)
    \/ ServiceUpdateTask
    \/ ServiceToggleTaskCompletion
    \/ ServiceDeleteTask

SpecService == Init /\ [][NextService]_vars

\* C25: update_task, delete_task and toggle_task_completion, called with a
\* current_user_id (the empty string included) that is not the owner of the
\* existing task, raise PermissionError and leave the table as it was.
C25_ServiceChecksOwner ==
    [][ (/\ last' # last
         /\ last'.op \in {"update_task", "complete_task", "delete_task"}
         /\ last'.owner # None
         /\ last'.owner # last'.current_user_id)
        => (last'.result = "PermissionError" /\ tasks' = tasks) ]_vars

----------------------------------------------------------------------------
(* Concurrent requests to the update, toggle and delete endpoints. Each     *)
(* endpoint looks the task up and compares its owner (CheckOwner), and then *)
(* calls the TaskService method without current_user_id, which looks the    *)
(* task up by id again (Finish...). Requests of other workers run between   *)
(* the two. The session still holds the object of the first look-up, so the *)
(* second look-up returns that object with the attributes read then.        *)

MaxRequests == 2

InFlightRequest(op, user, id, pc, status, seen, mutated_owner) ==
    [op |-> op, user |-> user, id |-> id, pc |-> pc, status |-> status,
     seen |-> seen, mutated_owner |-> mutated_owner]

NoRow == [user_id |-> None, title |-> "a", description |-> None, completed |-> FALSE]

TaskRaceFrame ==
    UNCHANGED <<conversations, messages, req, now, last, counters, metrics, todo,
                revoked>>

\* lines up to the ownership test of update_task, toggle_task_completion and
\* delete_task
CheckOwner ==
    /\ Len(calls) < MaxRequests
    /\ \E op \in {"update_task", "toggle_task_completion", "delete_task"},
          u \in Users, id \in TaskIds :
         calls' = Append(calls,
             IF TaskService_get_task_by_id(tasks, id) = 0
             THEN InFlightRequest(op, u, id, "done", 404, NoRow, None)
             ELSE IF tasks[id].user_id # u
             THEN InFlightRequest(op, u, id, "done", 403, NoRow, None)
             ELSE InFlightRequest(op, u, id, "mutate", 0, tasks[id], None))
    /\ UNCHANGED tasks
    /\ TaskRaceFrame

Mutating(i, op) ==
    i \in 1..Len(calls) /\ calls[i].pc = "mutate" /\ calls[i].op = op

Finished(c, status, mutated_owner) ==
    [c EXCEPT !.pc = "done", !.status = status, !.mutated_owner = mutated_owner]

\* the update sets completed, as the field the request carries
FinishUpdate ==
    /\ \E i \in 1..Len(calls) :
         /\ Mutating(i, "update_task")
         /\ LET c == calls[i]
                tu == [fields |-> {"completed"}, title |-> "a", description |-> None,
                       completed |-> TRUE, user_id |-> None]
                r == TaskService_update_task(tasks, c.id, tu, None)
            IN /\ tasks' = r.tasks
               /\ calls' = [calls EXCEPT ![i] =
                      IF r.result = "None" THEN Finished(c, 404, None)
                      ELSE Finished(c, 200, tasks[c.id].user_id)]
    /\ TaskRaceFrame

\* db_task.completed = not db_task.completed, on the object read before
FinishToggle ==
    /\ \E i \in 1..Len(calls) :
         /\ Mutating(i, "toggle_task_completion")
         /\ LET c == calls[i]
            IN IF c.id \notin DOMAIN tasks
               THEN /\ tasks' = tasks
                    /\ calls' = [calls EXCEPT ![i] = Finished(c, 404, None)]
               ELSE /\ tasks' = With(tasks, c.id,
                                     [tasks[c.id] EXCEPT !.completed = ~c.seen.completed])
                    /\ calls' = [calls EXCEPT ![i] =
                                    Finished(c, 200, tasks[c.id].user_id)]
    /\ TaskRaceFrame

FinishDelete ==
    /\ \E i \in 1..Len(calls) :
         /\ Mutating(i, "delete_task")
         /\ LET c == calls[i]
                r == TaskService_delete_task(tasks, c.id, None)
            IN /\ tasks' = r.tasks
               /\ calls' = [calls EXCEPT ![i] =
                      IF r.result = "False" THEN Finished(c, 404, None)
                      ELSE Finished(c, 204, tasks[c.id].user_id)]
    /\ TaskRaceFrame

NextTaskRace ==
    \/ CreateTask(OwnerPayloads)
    \/ CheckOwner
    \/ FinishUpdate
    \/ FinishToggle
    \/ FinishDelete

SpecTaskRace == Init /\ [][NextTaskRace]_vars

\* C26: whatever runs between a request's ownership check and its mutation,
\* the task it updates, toggles or deletes is owned, at the moment of the
\* mutation, by the principal that made the request.
C26_MutationByOwner ==
    \A i \in 1..Len(calls) :
        (calls[i].pc = "done" /\ calls[i].mutated_owner # None) =>
            calls[i].mutated_owner = calls[i].user

----------------------------------------------------------------------------
(* Claim C27, under SpecRace *)

Min(a, b) == IF a <= b THEN a ELSE b

\* C27: when the calls that started on an empty window were all in flight
\* together and read times within one minute, at least as many of them are
\* admitted as the per-minute threshold leaves room for.
C27_NoSpuriousRejection ==
    (/\ Len(calls) > 0
     /\ InFlight = {}
     /\ \A j \in 1..Len(calls) :
           calls[j].peers = Len(calls) /\ calls[j].t > now - 60)
    => Cardinality({ j \in 1..Len(calls) : calls[j].by # "minute" })
           >= Min(Len(calls), RaceLimits.requests_per_minute)

----------------------------------------------------------------------------
(* RateLimitMiddleware. x_user_id is the request's X-User-Id header, <<>>   *)
(* when the request carries none; the principal is whoever the bearer token *)
(* names, which the middleware does not look at.                            *)

Passed(status, by, store) == [status |-> status, by |-> by, store |-> store]

RateLimitMiddleware_call(store, x_user_id, endpoint, t) ==
    LET user_id == IF Has(x_user_id) THEN Val(x_user_id) ELSE "unknown"
        r == is_rate_limited(store, user_id, endpoint, <<EndpointLimits>>, t)
    IN IF r.blocked THEN Passed(429, r.by, r.store) ELSE Passed(200, r.by, r.store)

XUserIds == {Absent, <<"A">>, <<"B">>}

\* a request of principal "A" with whatever X-User-Id header the client chose
MiddlewareCall ==
    /\ Len(calls) < MaxCalls
    /\ \E x \in XUserIds :
         LET r == RateLimitMiddleware_call(counters, x, "/e", now)
         IN /\ counters' = r.store
            /\ calls' = Append(calls,
                               Call_("A", now, "done", "none", r.status = 429, r.by, 1))
            /\ last' = [op |-> "RateLimitMiddleware", x_user_id |-> x,
                        status |-> r.status]
    /\ UNCHANGED <<tasks, conversations, messages, req, now, metrics, todo, revoked>>

NextRateMiddleware ==
    \/ Tick
    \/ MiddlewareCall

SpecRateMiddleware == Init /\ [][NextRateMiddleware]_vars

\* C28: the requests one principal makes to an endpoint count against the
\* same per-minute window whatever X-User-Id header each carries: when they
\* were made at distinct times, a request is rejected exactly if it is past
\* the threshold among the principal's requests of the last 60 seconds.
C28_PrincipalKeyed ==
    (\A j, k \in 1..Len(calls) : j # k => calls[j].t # calls[k].t) =>
        \A k \in 1..Len(calls) :
            (calls[k].by = "minute")
                <=> (SentInWindow(k, 60) > EndpointLimits.requests_per_minute)

----------------------------------------------------------------------------
(* The in-memory TodoService of phase I. todo.tasks is self._tasks, a list  *)
(* of Task(id, title, is_completed); todo.next_id is self._next_id.         *)

MaxTodoId == 3

TodoTitles == {"a", " b", "", " "}

\* title.strip()
Strip(title) ==
    CASE title = " b" -> "b" [] title = " " -> "" [] OTHER -> title

Todo(tasks_, next_id) == [tasks |-> tasks_, next_id |-> next_id]

Outcome(result, td) == [result |-> result, todo |-> td]

\* the position of the first task with that id, 0 when there is none
get_task_by_id(td, task_id) ==
    IF \E i \in 1..Len(td.tasks) : td.tasks[i].id = task_id
    THEN CHOOSE i \in 1..Len(td.tasks) :
             /\ td.tasks[i].id = task_id
             /\ \A j \in 1..(i - 1) : td.tasks[j].id # task_id
    ELSE 0

\* list.remove: the list without its i-th element
Remove(seq, i) == SubSeq(seq, 1, i - 1) \o SubSeq(seq, i + 1, Len(seq))

\* add_task numbering the new task by the length of the list
add_task_by_length(td, title) ==
    IF Strip(title) = "" THEN Outcome("ValueError", td)
    ELSE Outcome("Task",
                 Todo(Append(td.tasks, [id |-> Len(td.tasks) + 1, title |-> Strip(title),
                                        is_completed |-> FALSE]),
                      td.next_id + 1))

add_task(td, title) ==
    IF Strip(title) = "" THEN Outcome("ValueError", td)
    ELSE Outcome("Task",
                 Todo(Append(td.tasks, [id |-> td.next_id, title |-> Strip(title),
                                        is_completed |-> FALSE]),
                      td.next_id + 1))

toggle_completion(td, task_id) ==
    LET i == get_task_by_id(td, task_id)
    IN IF i = 0 THEN Outcome("False", td)
       ELSE Outcome("True",
                    Todo([td.tasks EXCEPT ![i].is_completed = ~td.tasks[i].is_completed],
                         td.next_id))

todo_update_task(td, task_id, new_title) ==
    IF Strip(new_title) = "" THEN Outcome("ValueError", td)
    ELSE LET i == get_task_by_id(td, task_id)
         IN IF i = 0 THEN Outcome("False", td)
            ELSE Outcome("True",
                         Todo([td.tasks EXCEPT ![i].title = Strip(new_title)],
                              td.next_id))

todo_delete_task(td, task_id) ==
    LET i == get_task_by_id(td, task_id)
    IN IF i = 0 THEN Outcome("False", td)
       ELSE Outcome("True", Todo(Remove(td.tasks, i), td.next_id))

TodoIds == 0..MaxTodoId

TodoFrame ==
    UNCHANGED <<tasks, conversations, messages, req, now, counters, calls, metrics,
                revoked>>

TodoCall(op, task_id, result) == [op |-> op, task_id |-> task_id, result |-> result]

AddTask ==
    /\ todo.next_id <= MaxTodoId
    /\ \E title \in TodoTitles :
         LET r == add_task(todo, title)
         IN /\ todo' = r.todo
            /\ last' = TodoCall("add_task", todo.next_id, r.result)
    /\ TodoFrame

ToggleCompletion ==
    /\ \E id \in TodoIds :
         LET r == toggle_completion(todo, id)
         IN /\ todo' = r.todo
            /\ last' = TodoCall("toggle_completion", id, r.result)
    /\ TodoFrame

TodoUpdateTask ==
    /\ \E id \in TodoIds, title \in TodoTitles :
         LET r == todo_update_task(todo, id, title)
         IN /\ todo' = r.todo
            /\ last' = TodoCall("update_task", id, r.result)
    /\ TodoFrame

TodoDeleteTask ==
    /\ \E id \in TodoIds :
         LET r == todo_delete_task(todo, id)
         IN /\ todo' = r.todo
            /\ last' = TodoCall("delete_task", id, r.result)
    /\ TodoFrame

NextTodo ==
    \/ AddTask
    \/ ToggleCompletion
    \/ TodoUpdateTask
    \/ TodoDeleteTask

SpecTodo == Init /\ [][NextTodo]_vars

StoredIds(td) == { td.tasks[i].id : i \in 1..Len(td.tasks) }

\* C30: after every call the stored tasks have pairwise distinct ids; a task
\* that a call adds gets an id that no task, stored or deleted, had before
\* (ids are below next_id, a new id is the old next_id, next_id never goes
\* down); a call that raises ValueError or returns False changes neither the
\* list nor next_id.
C30_TodoIds ==
    [][ /\ \A i, j \in 1..Len(todo'.tasks) :
              i # j => todo'.tasks[i].id # todo'.tasks[j].id
        /\ \A id \in StoredIds(todo') : id < todo'.next_id
        /\ \A id \in StoredIds(todo') \ StoredIds(todo) : id >= todo.next_id
        /\ todo'.next_id >= todo.next_id
        /\ (last' # last /\ last'.result \in {"ValueError", "False"}) => todo' = todo
      ]_vars

\* a task has just been added after an earlier one was deleted
C30_Witness ==
    /\ last.op = "add_task"
    /\ last.result = "Task"
    /\ StoredIds(todo) = {1, 3}

====
